---------------------------- MODULE Spec2Model ----------------------------
(***************************************************************************)
(* A model of class UGraph (ugraph.pyx): the unfolded, time-expanded       *)
(* emergy graph, its window arrays, the backward coefficient solver and    *)
(* the convergence tracker.                                                *)
(*                                                                         *)
(* Numbers.  Every `double' of the source is an exact fixed-point number:  *)
(* the integer x stands for x / ONE.  Products of two doubles are divided  *)
(* by ONE (Mul); comparisons between quotients are evaluated exactly by    *)
(* cross-multiplication.  The networks and inputs below keep every product *)
(* exact (weights are multiples of ONE/2, inputs multiples of 2*ONE).      *)
(* Rows of the window arrays are sequences: row r (1-based) of an array is *)
(* index r-1 of the numpy array, i.e. step start_step + r - 1.             *)
(***************************************************************************)
EXTENDS Integers, Sequences, FiniteSets, TLC

VARIABLES
    net,              \* the static network (Graph) the engine was built on
    graph,            \* the attributes __init__ derives from the network
    variant,          \* the classification the driver calls: "convergence"
                      \* or "convergence2"
    source_flow,      \* state.source_flow[s], per source node
    is_operational,   \* state.is_operational[(i, j)], per link
    prev_flow,        \* history: source_flow of the previous step
    step, start_step,
    node, suc, suc_time, suc_weight,
    input_value, integrated_input, active_product,
    eme_coef, emp_coef,
    last_eme_val, last_emp_val, total_empower,
    arrived_emergy, flowing_emergy, empower,
    arrivals,         \* history: the set_arrived calls of the last classification
    solves,           \* history: the compute_emergy calls since the last clean
    classified,       \* history: the classification calls since the last clean
    observed,         \* history: per pending candidate, the positive empower
                      \* samples the classification calls have met so far
    pc,               \* the phase the driver runs next
    err               \* the exception that ended the run, or "none"

vars == << net, graph, variant, source_flow, is_operational, prev_flow, step, start_step,
           node, suc, suc_time, suc_weight,
           input_value, integrated_input, active_product,
           eme_coef, emp_coef, last_eme_val, last_emp_val, total_empower,
           arrived_emergy, flowing_emergy, empower, arrivals, solves, classified,
           observed, pc, err >>

-----------------------------------------------------------------------------
(* Bounds of the model *)

\* the last step the driver simulates
MaxStep == 4

\* the most compute_emergy calls the driver makes at one step
MaxSolves == 2

\* the most classification calls the driver makes at one step
MaxClassified == 2

-----------------------------------------------------------------------------
(* Fixed-point doubles *)

\* the integer that stands for 1.0
ONE == 1024

HALF == ONE \div 2

\* the product of two doubles
Mul(a, b) == (a * b) \div ONE

\* 0.5 * a
Half(a) == a \div 2

\* np.iinfo(np.int).max, the "no arc" value of suc_time
max_int == 2147483647

\* time_step, a C int: the duration of a step
TIME_STEP == 2

\* EPSILON = EPS_NUM / EPS_DEN
EPS_NUM == 1

EPS_DEN == 8

NUM_CESARO == 2

MAX_STEPS == 3

\* Python 3's round(n / d) for n >= 0, d > 0: to nearest, ties to even
Round(n, d) ==
    LET q == n \div d
        r == n % d
    IN  IF 2 * r < d THEN q
        ELSE IF 2 * r > d THEN q + 1
        ELSE IF q % 2 = 0 THEN q ELSE q + 1

-----------------------------------------------------------------------------
(* The Topology Provider: the networks the engine is built on.  A link is  *)
(* [i, j, w, fast, mass, rate]; uev is the unit emergy value of a source.  *)

Link(i, j, w, fast, mass, rate) ==
    [i |-> i, j |-> j, w |-> w, fast |-> fast, mass |-> mass, rate |-> rate]

Nets == {"direct", "tank", "coprod", "zfwd", "sfwd", "back", "two", "pulse",
         "leak"}

\* graph.type[i], for i = 0 .. num_nodes - 1 (at index i + 1)
GraphType(g) ==
    CASE g = "direct" -> << "product", "source" >>
      [] g = "tank"   -> << "source", "tank", "product" >>
      [] g = "coprod" -> << "source", "coproduct", "split", "split", "product" >>
      [] g = "zfwd"   -> << "source", "coproduct", "product" >>
      [] g = "sfwd"   -> << "source", "split", "product" >>
      [] g = "back"   -> << "product", "split", "split", "source" >>
      [] g = "two"    -> << "source", "source", "split", "product", "product" >>
      [] g = "pulse"  -> << "product", "split", "split", "source" >>
      [] g = "leak"   -> << "product", "split", "source" >>

\* the links: graph.successors, graph.is_fast, graph.mass, graph.flow_rate and
\* the weight the scenario gives the link
GraphLinks(g) ==
    CASE g = "direct" -> { Link(1, 0, ONE, FALSE, 1, 1) }
      [] g = "tank"   -> { Link(0, 1, ONE, TRUE, 0, 1),
                           Link(1, 1, HALF, FALSE, 6, 1),
                           Link(1, 2, HALF, FALSE, 2, 1) }
      [] g = "coprod" -> { Link(0, 1, ONE, TRUE, 0, 1),
                           Link(1, 2, ONE, TRUE, 0, 1),
                           Link(1, 3, ONE, FALSE, 2, 1),
                           Link(2, 4, 3 * ONE, TRUE, 0, 1),
                           Link(3, 4, 5 * ONE, TRUE, 0, 1) }
      [] g = "zfwd"   -> { Link(0, 1, ONE, TRUE, 0, 1),
                           Link(1, 2, ONE, FALSE, 1, 1) }
      [] g = "sfwd"   -> { Link(0, 1, ONE, TRUE, 0, 1),
                           Link(1, 2, ONE, FALSE, 1, 1) }
      [] g = "back"   -> { Link(3, 2, ONE, TRUE, 0, 1),
                           Link(2, 1, ONE, FALSE, 1, 1),
                           Link(1, 0, ONE, TRUE, 0, 1) }
      [] g = "two"    -> { Link(0, 2, ONE, TRUE, 0, 1),
                           Link(2, 3, HALF, TRUE, 0, 1),
                           Link(2, 4, HALF, FALSE, 4, 1),
                           Link(1, 4, ONE, FALSE, 3, 1) }
      [] g = "pulse"  -> { Link(3, 0, HALF, FALSE, 1, 1),
                           Link(3, 2, HALF, TRUE, 0, 1),
                           Link(2, 0, ONE \div 32, FALSE, 1, 1),
                           Link(2, 1, HALF, TRUE, 0, 1),
                           Link(1, 0, ONE, FALSE, 1, 1) }
      [] g = "leak"   -> { Link(2, 0, HALF, FALSE, 1, 1),
                           Link(2, 1, HALF, TRUE, 0, 1) }

\* graph.uev[s]
GraphUev(g) == 2 * ONE

\* the flows state.source_flow the scenario may feed a source at a step
GraphFlows(g) ==
    CASE g = "direct" -> { -1, 0, 1 }
      [] g = "zfwd"   -> { -1, 0, 1 }
      [] OTHER        -> { 0, 1 }

\* the sets of links the scenario may report as not operational at a step
GraphDowns(g) ==
    CASE g = "direct" -> { {} }
      [] g = "tank"   -> { {}, { <<1, 2>> }, { <<0, 1>> } }
      [] g = "coprod" -> { {}, { <<1, 3>> } }
      [] g = "zfwd"   -> { {} }
      [] g = "sfwd"   -> { {} }
      [] g = "back"   -> { {} }
      [] g = "two"    -> { {} }
      [] g = "pulse"  -> { {} }
      [] g = "leak"   -> { {} }

\* the sets of links the scenario may leave out of state.is_operational at a
\* step (the dictionary has no entry for them)
GraphAbsent(g) ==
    CASE g = "two" -> { {}, { <<1, 4>> } }
      [] OTHER     -> { {} }

\* the elements of a finite set of integers in increasing order
RECURSIVE Sorted(_)
Sorted(S) ==
    IF S = {} THEN << >>
    ELSE LET m == CHOOSE x \in S : \A y \in S : x <= y
         IN  << m >> \o Sorted(S \ {m})

-----------------------------------------------------------------------------
(* What __init__ derives from the graph g *)

NodesOf(g) == 0 .. Len(GraphType(g)) - 1

LinkIn(g, i, j) == CHOOSE l \in GraphLinks(g) : l.i = i /\ l.j = j

\* conv_type: 0 source, 1 split, 2 coproduct, 3 tank, 4 product
conv_type(ty) ==
    CASE ty = "source"    -> 0
      [] ty = "split"     -> 1
      [] ty = "coproduct" -> 2
      [] ty = "tank"      -> 3
      [] ty = "product"   -> 4

\* the nodes of type ty of g in index order: sources and products are
\* numbered from 0 in the order of their node numbers
NodesOfType(g, ty) == Sorted({ i \in NodesOf(g) : GraphType(g)[i + 1] = ty })

\* the number of steps to cross link l
steps_of(l) ==
    IF l.i = l.j \/ l.fast THEN 1
    ELSE Round(l.mass, l.rate * TIME_STEP)

\* the nodes reachable from the nodes of S along the links of g
RECURSIVE Closure(_, _)
Closure(g, S) ==
    LET T == S \cup { l.j : l \in { m \in GraphLinks(g) : m.i \in S } }
    IN  IF T = S THEN S ELSE Closure(g, T)

\* the attributes __init__ sets, for every network
Built ==
    [ g \in Nets |->
      LET srcs  == NodesOfType(g, "source")
          prods == NodesOfType(g, "product")
      IN  [ num_nodes |-> Len(GraphType(g)),
            num_sources |-> Len(srcs),
            num_products |-> Len(prods),
            node_type |-> [ i \in NodesOf(g) |-> conv_type(GraphType(g)[i + 1]) ],
            source_node_number |-> [ s \in 0 .. Len(srcs) - 1 |-> srcs[s + 1] ],
            product_node_number |-> [ p \in 0 .. Len(prods) - 1 |-> prods[p + 1] ],
            source_number |->
              [ i \in { srcs[k] : k \in 1 .. Len(srcs) } |->
                  (CHOOSE k \in 1 .. Len(srcs) : srcs[k] = i) - 1 ],
            product_number |->
              [ i \in { prods[k] : k \in 1 .. Len(prods) } |->
                  (CHOOSE k \in 1 .. Len(prods) : prods[k] = i) - 1 ],
            successors |->
              [ i \in NodesOf(g) |->
                  Sorted({ l.j : l \in { m \in GraphLinks(g) : m.i = i } }) ],
            num_steps |->
              [ k \in { << l.i, l.j >> : l \in GraphLinks(g) } |->
                  steps_of(LinkIn(g, k[1], k[2])) ],
            weight |->
              [ k \in { << l.i, l.j >> : l \in GraphLinks(g) } |->
                  LinkIn(g, k[1], k[2]).w ],
            reachable |->
              [ i \in NodesOf(g) |->
                  Sorted({ j \in Closure(g, {i}) : GraphType(g)[j + 1] = "product" }) ]
          ] ]

num_nodes == graph.num_nodes

num_sources == graph.num_sources

num_products == graph.num_products

Nodes == 0 .. num_nodes - 1

Sources == 0 .. num_sources - 1

Products == 0 .. num_products - 1

node_type(i) == graph.node_type[i]

source_number(i) == graph.source_number[i]

product_number(i) == graph.product_number[i]

source_node_number(s) == graph.source_node_number[s]

product_node_number(p) == graph.product_node_number[p]

\* graph.successors[i], a list
successors(i) == graph.successors[i]

\* num_steps[i, j]
num_steps(i, j) == graph.num_steps[<< i, j >>]

\* state.weight[(i, j)]
state_weight(i, j) == graph.weight[<< i, j >>]

\* graph.reachable_products()[s]: the product nodes reachable from node s
reachable(s) == graph.reachable[s]

LinkKeys == DOMAIN graph.num_steps

-----------------------------------------------------------------------------
(* The window arrays.  A window W packs the seven arrays that extend and   *)
(* reduce keep at the same length.                                         *)

Win ==
    [ node |-> node, suc |-> suc, suc_time |-> suc_time,
      suc_weight |-> suc_weight, input_value |-> input_value,
      integrated_input |-> integrated_input,
      active_product |-> active_product ]

\* one row of each array as first_step and extend create it
EmptyRow ==
    [ node |-> [i \in Nodes |-> FALSE],
      suc |-> [i \in Nodes |-> [j \in Nodes |-> FALSE]],
      suc_time |-> [i \in Nodes |-> [j \in Nodes |-> max_int]],
      suc_weight |-> [i \in Nodes |-> [j \in Nodes |-> 0]],
      input_value |-> [s \in Sources |-> -ONE],
      integrated_input |-> [s \in Sources |-> 0],
      active_product |-> [s \in Sources |-> [p \in Products |-> FALSE]] ]

\* k copies of x
Rep(x, k) == [r \in 1 .. k |-> x]

\* first_step: every array has one row
first_step ==
    [ f \in DOMAIN EmptyRow |-> << EmptyRow[f] >> ]

\* a variant of extend whose new rows hold a zero input instead of no input
extend_zero_input(W, k) ==
    [ f \in DOMAIN W |->
        W[f] \o Rep(IF f = "input_value" THEN [s \in Sources |-> 0]
                                         ELSE EmptyRow[f], k) ]

\* extend(num_steps): k empty rows are added at the end of every array
extend(W, k) ==
    [ f \in DOMAIN W |-> W[f] \o Rep(EmptyRow[f], k) ]

\* reduce(num_steps): the first k rows of every array are removed
reduce(W, k) ==
    [ f \in DOMAIN W |-> SubSeq(W[f], k + 1, Len(W[f])) ]

\* len(self.node)
WLen(W) == Len(W.node)

\* add_node(t, num_node), with the start_step st
add_node(W, st, t, i) ==
    LET last_step == WLen(W) - 1
        W1 == IF t > last_step THEN extend(W, t - last_step) ELSE W
    IN  [W1 EXCEPT !.node[t - st + 1][i] = TRUE]

\* add_successors(num_node, suc_list): suc_list is a sequence of
\* << num_suc, t_suc, weight >>, handled in order
RECURSIVE add_successors(_, _, _, _, _)
add_successors(W, st, cur, i, suc_list) ==
    IF suc_list = << >> THEN W
    ELSE LET e  == Head(suc_list)
             t  == cur - st
             W1 == add_node(W, st, e[2], e[1])
             W2 == [W1 EXCEPT !.suc[t + 1][i][e[1]] = TRUE,
                              !.suc_time[t + 1][i][e[1]] = e[2],
                              !.suc_weight[t + 1][i][e[1]] = e[3]]
         IN  add_successors(W2, st, cur, i, Tail(suc_list))


-----------------------------------------------------------------------------
(* Python dictionaries: functions whose domain is the set of keys *)

EmptyDict == [k \in {} |-> 0]

\* d[k] = v
Put(d, k, v) == [x \in DOMAIN d \cup {k} |-> IF x = k THEN v ELSE d[x]]

\* del d[k]
Del(d, k) == [x \in DOMAIN d \ {k} |-> d[x]]

-----------------------------------------------------------------------------
(* add_inputs *)

\* val = flow * uev * time_step of source number s
InputVal(flow, s) == flow[source_node_number(s)] * GraphUev(net) * TIME_STEP

\* compute_inputs, from source number s on.  R = [W, inputs, err]: the window,
\* the inputs admitted so far (source numbers, all at the current step) and
\* the exception raised.  An index past the last row raises IndexError.
RECURSIVE compute_inputs(_, _)
compute_inputs(R, s) ==
    IF s >= num_sources \/ R.err # "none" THEN R
    ELSE
      LET val == InputVal(source_flow, s)
          cur == step - start_step + 1
          previous_step == step - 1
          prv == previous_step - start_step + 1
          inrange(r) == r >= 1 /\ r <= WLen(R.W)
      IN  IF val > 0
          THEN IF inrange(cur)
               THEN compute_inputs(
                      [R EXCEPT !.W.input_value[cur][s] = val,
                                !.inputs = Append(@, s)], s + 1)
               ELSE [R EXCEPT !.err = "IndexError"]
          ELSE IF previous_step >= start_step
               THEN IF ~inrange(prv) THEN [R EXCEPT !.err = "IndexError"]
                    ELSE IF R.W.input_value[prv][s] > 0
                         THEN IF inrange(cur)
                              THEN compute_inputs(
                                     [R EXCEPT !.W.input_value[cur][s] = 0,
                                               !.inputs = Append(@, s)], s + 1)
                              ELSE [R EXCEPT !.err = "IndexError"]
                         ELSE compute_inputs(R, s + 1)
               ELSE compute_inputs(R, s + 1)

\* a variant of PreviousInput that never finds a previous input
no_previous(W, s) == 0

\* the value compute_integrated_inputs takes for the previous step of source s
PreviousInput(W, s) ==
    LET previous_time == step - 1
        previous_val == W.input_value[previous_time - start_step + 1][s]
    IN  IF previous_time >= start_step /\ previous_val > 0
        THEN previous_val ELSE 0

\* compute_integrated_inputs(inputs)
RECURSIVE compute_integrated_inputs(_, _)
compute_integrated_inputs(W, inputs) ==
    IF inputs = << >> THEN W
    ELSE LET s    == Head(inputs)
             cur  == step - start_step + 1
             flow == W.input_value[cur][s]
             W1   == [W EXCEPT !.integrated_input[cur][s] =
                                   Half(PreviousInput(W, s) + flow)]
         IN  compute_integrated_inputs(W1, Tail(inputs))

\* add_input_nodes, the loop over the products reachable from the source:
\* C = [W, eme, emp, tot] holds the window and the three convergence maps
RECURSIVE open_candidates(_, _, _)
open_candidates(C, s, prods) ==
    IF prods = << >> THEN C
    ELSE LET p == product_number(Head(prods))
             k == << step, s, p >>
             C1 == [ W   |-> [C.W EXCEPT
                               !.active_product[step - start_step + 1][s][p] = TRUE],
                     eme |-> Put(C.eme, k, << >>),
                     emp |-> Put(C.emp, k, << >>),
                     tot |-> Put(C.tot, k, 0) ]
         IN  open_candidates(C1, s, Tail(prods))

\* add_input_nodes(inputs)
RECURSIVE add_input_nodes(_, _)
add_input_nodes(C, inputs) ==
    IF inputs = << >> THEN C
    ELSE LET s  == Head(inputs)
             sn == source_node_number(s)
             C1 == [C EXCEPT !.W = add_node(C.W, start_step, step, sn)]
         IN  add_input_nodes(open_candidates(C1, s, reachable(sn)),
                             Tail(inputs))

SetWin(W) ==
    /\ node' = W.node
    /\ suc' = W.suc
    /\ suc_time' = W.suc_time
    /\ suc_weight' = W.suc_weight
    /\ input_value' = W.input_value
    /\ integrated_input' = W.integrated_input
    /\ active_product' = W.active_product

\* the candidates (t, s, p) whose flag is true in the flags ap of a window
\* that starts at step st
KeysOf(ap, st) ==
    { k \in (st .. st + Len(ap) - 1) \X Sources \X Products :
        ap[k[1] - st + 1][k[2]][k[3]] }

\* add_inputs()
AddInputs ==
    /\ pc = "add_inputs"
    /\ LET R == compute_inputs([W |-> Win, inputs |-> << >>, err |-> "none"], 0)
       IN  IF R.err # "none"
           THEN /\ SetWin(R.W)
                /\ err' = R.err
                /\ pc' = "error"
                /\ UNCHANGED << last_eme_val, last_emp_val, total_empower,
                                observed >>
           ELSE IF R.inputs # << >>
           THEN LET W1 == compute_integrated_inputs(R.W, R.inputs)
                    C  == add_input_nodes(
                            [ W |-> W1, eme |-> last_eme_val,
                              emp |-> last_emp_val, tot |-> total_empower ],
                            R.inputs)
                IN  /\ SetWin(C.W)
                    /\ last_eme_val' = C.eme
                    /\ last_emp_val' = C.emp
                    /\ total_empower' = C.tot
                    /\ observed' =
                         [ k \in KeysOf(C.W.active_product, start_step) |->
                             IF k \in DOMAIN observed THEN observed[k]
                                                      ELSE << >> ]
                    /\ pc' = "unfold"
                    /\ err' = err
           ELSE /\ SetWin(extend(R.W, 1))
                /\ pc' = "unfold"
                /\ err' = err
                /\ UNCHANGED << last_eme_val, last_emp_val, total_empower,
                                observed >>
    /\ UNCHANGED << net, graph, variant, source_flow, is_operational, prev_flow, step,
                    start_step, eme_coef, emp_coef, arrived_emergy,
                    flowing_emergy, empower, arrivals, solves,
                    classified >>


-----------------------------------------------------------------------------
(* unfold *)

\* suc_info of a node: << suc, t_suc, weight >> of every operational successor
suc_info(i) ==
    LET suc_list == SelectSeq(successors(i),
                              LAMBDA j : is_operational[<< i, j >>])
    IN  [ k \in 1 .. Len(suc_list) |->
            << suc_list[k], step + num_steps(i, suc_list[k]),
               state_weight(i, suc_list[k]) >> ]

\* state.is_operational has no entry for some link out of node i: the lookup
\* raises KeyError
no_entry(i) ==
    \E k \in 1 .. Len(successors(i)) :
        << i, successors(i)[k] >> \notin DOMAIN is_operational

\* the loop of unfold over the nodes, from node i on, R = [W, err]: a node
\* that an earlier iteration added at the current step is unfolded when the
\* loop reaches it; a KeyError ends the loop and keeps what the earlier
\* iterations wrote
RECURSIVE unfold_from(_, _)
unfold_from(R, i) ==
    IF i >= num_nodes \/ R.err # "none" THEN R
    ELSE IF R.W.node[step - start_step + 1][i]
         THEN IF no_entry(i)
              THEN [R EXCEPT !.err = "KeyError"]
              ELSE unfold_from(
                     [R EXCEPT !.W = add_successors(@, start_step, step, i,
                                                    suc_info(i))],
                     i + 1)
         ELSE unfold_from(R, i + 1)

\* unfold()
Unfold ==
    /\ pc = "unfold"
    /\ LET offset == step - start_step
           R == IF offset < WLen(Win)
                THEN unfold_from([W |-> Win, err |-> "none"], 0)
                ELSE [W |-> Win, err |-> "none"]
       IN  /\ SetWin(R.W)
           /\ err' = R.err
           /\ pc' = IF R.err = "none" THEN "compute_emergy" ELSE "error"
    /\ UNCHANGED << net, graph, variant, source_flow, is_operational, prev_flow, step,
                    start_step, eme_coef, emp_coef, last_eme_val, last_emp_val,
                    total_empower, arrived_emergy, flowing_emergy, empower,
                    arrivals, solves,
                    observed, classified >>

-----------------------------------------------------------------------------
(* compute_emergy *)

\* a variant of ZeroTable that starts from the table of the previous solve
\* when it has the same number of rows
stale_table(dim1) ==
    IF Len(eme_coef) = dim1 THEN eme_coef
    ELSE [ r \in 1 .. dim1 |-> [ i \in Nodes |-> [ p \in Products |-> 0 ] ] ]

\* np.zeros((dim1, num_nodes, num_products))
ZeroTable(dim1) ==
    [ r \in 1 .. dim1 |-> [ i \in Nodes |-> [ p \in Products |-> 0 ] ] ]

\* sum_suc_eme_coef and sum_suc_emp_coef: the sum, over the recorded arcs of
\* (time, node) whose target step is <= step, of weight * coef[target], read
\* from the table as it is when the node is evaluated
RECURSIVE sum_suc_coef(_, _, _, _, _)
sum_suc_coef(coef, time, i, p, j) ==
    IF j >= num_nodes THEN 0
    ELSE LET t == time - start_step + 1
             t_suc == suc_time[t][i][j]
             term == IF suc[t][i][j] /\ t_suc <= step
                     THEN Mul(suc_weight[t][i][j],
                              coef[t_suc - start_step + 1][j][p])
                     ELSE 0
         IN  term + sum_suc_coef(coef, time, i, p, j + 1)

\* max_suc_eme_coef and max_suc_emp_coef: val starts at 0.0 and takes every
\* larger weight * coef[target]
RECURSIVE max_suc_coef(_, _, _, _, _, _)
max_suc_coef(coef, time, i, p, j, val) ==
    IF j >= num_nodes THEN val
    ELSE LET t == time - start_step + 1
             t_suc == suc_time[t][i][j]
             val2 == Mul(suc_weight[t][i][j],
                         coef[t_suc - start_step + 1][j][p])
         IN  IF suc[t][i][j] /\ t_suc <= step /\ val2 > val
             THEN max_suc_coef(coef, time, i, p, j + 1, val2)
             ELSE max_suc_coef(coef, time, i, p, j + 1, val)

\* a variant of emergy_of whose product case counts the current step only,
\* as the empower rule does
emergy_of_instant(coef, time, i, p) ==
    LET t == time - start_step + 1
        type_ == node_type(i)
    IN  IF type_ = 4
        THEN IF i = product_node_number(p) /\ time = step THEN ONE ELSE 0
        ELSE IF type_ = 1 \/ type_ = 3
        THEN sum_suc_coef(coef, time, i, p, 0)
        ELSE IF type_ = 2
        THEN max_suc_coef(coef, time, i, p, 0, 0)
        ELSE IF active_product[t][source_number(i)][p]
             THEN Mul(sum_suc_coef(coef, time, i, p, 0),
                      integrated_input[t][source_number(i)])
             ELSE 0

\* the value emergy_coefficients assigns to eme_coef[t, node, product]
emergy_of(coef, time, i, p) ==
    LET t == time - start_step + 1
        type_ == node_type(i)
    IN  IF type_ = 4
        THEN IF i = product_node_number(p) THEN ONE ELSE 0
        ELSE IF type_ = 1 \/ type_ = 3
        THEN sum_suc_coef(coef, time, i, p, 0)
        ELSE IF type_ = 2
        THEN max_suc_coef(coef, time, i, p, 0, 0)
        ELSE IF active_product[t][source_number(i)][p]
             THEN Mul(sum_suc_coef(coef, time, i, p, 0),
                      integrated_input[t][source_number(i)])
             ELSE 0

\* a variant of empower_of whose product case does not look at the step
empower_of_any_step(coef, time, i, p) ==
    LET t == time - start_step + 1
        type_ == node_type(i)
    IN  IF type_ = 4
        THEN IF i = product_node_number(p) THEN ONE ELSE 0
        ELSE IF type_ = 1 \/ type_ = 3
        THEN sum_suc_coef(coef, time, i, p, 0)
        ELSE IF type_ = 2
        THEN max_suc_coef(coef, time, i, p, 0, 0)
        ELSE IF /\ active_product[t][source_number(i)][p]
                /\ input_value[t][source_number(i)] > 0
             THEN Mul(sum_suc_coef(coef, time, i, p, 0),
                      integrated_input[t][source_number(i)]) \div TIME_STEP
             ELSE 0

\* a variant of empower_of whose source case only tests the flag
empower_of_flag_only(coef, time, i, p) ==
    LET t == time - start_step + 1
        type_ == node_type(i)
    IN  IF type_ = 4
        THEN IF i = product_node_number(p) /\ time = step THEN ONE ELSE 0
        ELSE IF type_ = 1 \/ type_ = 3
        THEN sum_suc_coef(coef, time, i, p, 0)
        ELSE IF type_ = 2
        THEN max_suc_coef(coef, time, i, p, 0, 0)
        ELSE IF active_product[t][source_number(i)][p]
             THEN Mul(sum_suc_coef(coef, time, i, p, 0),
                      integrated_input[t][source_number(i)]) \div TIME_STEP
             ELSE 0

\* the value empower_coefficients assigns to emp_coef[t, node, product]
empower_of(coef, time, i, p) ==
    LET t == time - start_step + 1
        type_ == node_type(i)
    IN  IF type_ = 4
        THEN IF i = product_node_number(p) /\ time = step THEN ONE ELSE 0
        ELSE IF type_ = 1 \/ type_ = 3
        THEN sum_suc_coef(coef, time, i, p, 0)
        ELSE IF type_ = 2
        THEN max_suc_coef(coef, time, i, p, 0, 0)
        ELSE IF /\ active_product[t][source_number(i)][p]
                /\ input_value[t][source_number(i)] > 0
             THEN Mul(sum_suc_coef(coef, time, i, p, 0),
                      integrated_input[t][source_number(i)]) \div TIME_STEP
             ELSE 0

\* the loops of emergy_coefficients (emp = FALSE) and empower_coefficients
\* (emp = TRUE): products in order, steps from step down to start_step, nodes
\* in index order; every existing node is assigned its value in the table
RECURSIVE coef_nodes(_, _, _, _, _)
coef_nodes(emp, coef, p, time, i) ==
    IF i >= num_nodes THEN coef
    ELSE LET t == time - start_step + 1
         IN  IF node[t][i]
             THEN coef_nodes(emp,
                    [coef EXCEPT ![t][i][p] =
                        IF emp THEN empower_of(coef, time, i, p)
                               ELSE emergy_of(coef, time, i, p)],
                    p, time, i + 1)
             ELSE coef_nodes(emp, coef, p, time, i + 1)

RECURSIVE coef_steps(_, _, _, _)
coef_steps(emp, coef, p, time) ==
    IF time < start_step THEN coef
    ELSE coef_steps(emp, coef_nodes(emp, coef, p, time, 0), p, time - 1)

RECURSIVE coefficients(_, _, _)
coefficients(emp, coef, p) ==
    IF p >= num_products THEN coef
    ELSE coefficients(emp, coef_steps(emp, coef, p, step), p + 1)

emergy_coefficients(coef) == coefficients(FALSE, coef, 0)

empower_coefficients(coef) == coefficients(TRUE, coef, 0)

\* compute_emergy()
ComputeEmergy ==
    /\ pc = "compute_emergy"
    /\ eme_coef' = emergy_coefficients(ZeroTable(step - start_step + 1))
    /\ emp_coef' = empower_coefficients(ZeroTable(step - start_step + 1))
    /\ pc' = "convergence"
    /\ solves' = solves + 1
    /\ UNCHANGED << net, graph, variant, source_flow, is_operational, prev_flow, step,
                    start_step, node, suc, suc_time, suc_weight, input_value,
                    integrated_input, active_product, last_eme_val,
                    last_emp_val, total_empower, arrived_emergy,
                    flowing_emergy, empower, arrivals, err,
                    observed, classified >>


-----------------------------------------------------------------------------
(* convergence and convergence2.  S is the state a classification call     *)
(* works on: ap = active_product, le = last_eme_val, lp = last_emp_val,    *)
(* te = total_empower, arr / flo / emp = the three product accumulators,   *)
(* log = the set_arrived calls made, err = the exception raised.           *)

ConvState ==
    [ ap |-> active_product, le |-> last_eme_val, lp |-> last_emp_val,
      te |-> total_empower, arr |-> arrived_emergy, flo |-> flowing_emergy,
      emp |-> empower, log |-> << >>, err |-> "none" ]

\* 1.0 - num / den <= EPSILON, for den # 0
OneMinusLeqEps(num, den) ==
    IF den > 0 THEN (den - num) * EPS_DEN <= EPS_NUM * den
               ELSE (den - num) * EPS_DEN >= EPS_NUM * den

\* a variant of set_arrived that keeps the total_empower entry
set_arrived_keep(S, t, s, p, eme, emp) ==
    [S EXCEPT !.arr[p] = @ + eme,
              !.emp[p] = @ + emp,
              !.ap[t - start_step + 1][s][p] = FALSE,
              !.le = Del(@, << t, s, p >>),
              !.lp = Del(@, << t, s, p >>),
              !.log = Append(@, [t |-> t, s |-> s, p |-> p,
                                 eme |-> eme, emp |-> emp])]

\* a variant of set_arrived that leaves the Active-Product Flag set
set_arrived_flag_kept(S, t, s, p, eme, emp) ==
    [S EXCEPT !.arr[p] = @ + eme,
              !.emp[p] = @ + emp,
              !.le = Del(@, << t, s, p >>),
              !.lp = Del(@, << t, s, p >>),
              !.te = Del(@, << t, s, p >>),
              !.log = Append(@, [t |-> t, s |-> s, p |-> p,
                                 eme |-> eme, emp |-> emp])]

\* set_arrived(t, s, p, eme, emp)
set_arrived(S, t, s, p, eme, emp) ==
    [S EXCEPT !.arr[p] = @ + eme,
              !.emp[p] = @ + emp,
              !.ap[t - start_step + 1][s][p] = FALSE,
              !.le = Del(@, << t, s, p >>),
              !.lp = Del(@, << t, s, p >>),
              !.te = Del(@, << t, s, p >>),
              !.log = Append(@, [t |-> t, s |-> s, p |-> p,
                                 eme |-> eme, emp |-> emp])]

\* set_flowing(p, eme, emp)
set_flowing(S, p, eme, emp) ==
    [S EXCEPT !.flo[p] = @ + eme, !.emp[p] = @ + emp]

\* the sum of the elements of a sequence
RECURSIVE SeqSum(_)
SeqSum(q) == IF q = << >> THEN 0 ELSE Head(q) + SeqSum(Tail(q))

\* a variant of CesaroCriterion that never finds the mean negligible
CesaroCriterion_never(S, t, s, p) == FALSE

\* CesaroCriterion(t, s, p)
CesaroCriterion(S, t, s, p) ==
    LET q == S.lp[<< t, s, p >>]
        val == Cardinality({ n \in 1 .. Len(q) : q[n] > 0 })
        emp_sum == SeqSum(q)
    IN  /\ val > 0
        /\ emp_sum * NUM_CESARO * EPS_DEN < S.te[<< t, s, p >>] * EPS_NUM * val

\* a variant of increaseCesaro that records the sample and leaves the total
increaseCesaro_no_total(S, t, s, p, emp) ==
    [S EXCEPT !.lp[<< t, s, p >>] = Append(@, emp)]

\* increaseCesaro(t, s, p, emp)
increaseCesaro(S, t, s, p, emp) ==
    [S EXCEPT !.lp[<< t, s, p >>] = Append(@, emp),
              !.te[<< t, s, p >>] = @ + emp]

\* a variant of aged_or_young whose young branch records every positive
\* sample, whatever the length of the history
aged_or_young_unbounded(S, time, source, prod, eme, emp) ==
    LET k  == << time, source, prod >>
        S1 == [S EXCEPT !.le[k] = Append(@, eme)]
    IN  IF time + MAX_STEPS > step
        THEN LET S2 == set_flowing(S1, prod, eme, emp)
             IN  IF emp > 0
                 THEN increaseCesaro(S2, time, source, prod, emp)
                 ELSE S2
        ELSE IF (eme - S1.le[k][1]) * EPS_DEN <= EPS_NUM * eme
        THEN set_arrived(S1, time, source, prod, eme, 0)
        ELSE LET S2 == [S1 EXCEPT !.le[k] = Tail(@)]
             IN  IF Len(S2.lp[k]) < NUM_CESARO
                 THEN LET S3 == set_flowing(S2, prod, eme, emp)
                      IN  IF emp > 0
                          THEN increaseCesaro(S3, time, source, prod, emp)
                          ELSE S3
                 ELSE IF CesaroCriterion(S2, time, source, prod)
                 THEN set_arrived(S2, time, source, prod, eme, 0)
                 ELSE LET S3 == set_flowing(S2, prod, eme, emp)
                      IN  [S3 EXCEPT !.lp[k] = Append(Tail(@), emp)]

\* a variant of aged_or_young that records the current sample in a history
\* that is not full even when the sample is zero
aged_or_young_any_sample(S, time, source, prod, eme, emp) ==
    LET k  == << time, source, prod >>
        S1 == [S EXCEPT !.le[k] = Append(@, eme)]
    IN  IF time + MAX_STEPS > step
        THEN LET S2 == set_flowing(S1, prod, eme, emp)
             IN  IF Len(S2.lp[k]) < NUM_CESARO
                 THEN increaseCesaro(S2, time, source, prod, emp)
                 ELSE S2
        ELSE IF (eme - S1.le[k][1]) * EPS_DEN <= EPS_NUM * eme
        THEN set_arrived(S1, time, source, prod, eme, 0)
        ELSE LET S2 == [S1 EXCEPT !.le[k] = Tail(@)]
             IN  IF Len(S2.lp[k]) < NUM_CESARO
                 THEN LET S3 == set_flowing(S2, prod, eme, emp)
                      IN  increaseCesaro(S3, time, source, prod, emp)
                 ELSE IF CesaroCriterion(S2, time, source, prod)
                 THEN set_arrived(S2, time, source, prod, eme, 0)
                 ELSE LET S3 == set_flowing(S2, prod, eme, emp)
                      IN  [S3 EXCEPT !.lp[k] = Append(Tail(@), emp)]

\* a variant of aged_or_young without criterion 3
aged_or_young_never_stalled(S, time, source, prod, eme, emp) ==
    LET k  == << time, source, prod >>
        S1 == [S EXCEPT !.le[k] = Append(@, eme)]
    IN  IF time + MAX_STEPS > step
        THEN LET S2 == set_flowing(S1, prod, eme, emp)
             IN  IF emp > 0 /\ Len(S2.lp[k]) < NUM_CESARO
                 THEN increaseCesaro(S2, time, source, prod, emp)
                 ELSE S2
        ELSE LET S2 == [S1 EXCEPT !.le[k] = Tail(@)]
             IN  IF Len(S2.lp[k]) < NUM_CESARO
                 THEN LET S3 == set_flowing(S2, prod, eme, emp)
                      IN  IF emp > 0
                          THEN increaseCesaro(S3, time, source, prod, emp)
                          ELSE S3
                 ELSE IF CesaroCriterion(S2, time, source, prod)
                 THEN set_arrived(S2, time, source, prod, eme, 0)
                 ELSE LET S3 == set_flowing(S2, prod, eme, emp)
                      IN  [S3 EXCEPT !.lp[k] = Append(Tail(@), emp)]

\* a variant of aged_or_young whose criterion 3 compares eme with the newest
\* recorded sample before it instead of the oldest
aged_or_young_newest(S, time, source, prod, eme, emp) ==
    LET k  == << time, source, prod >>
        S1 == [S EXCEPT !.le[k] = Append(@, eme)]
    IN  IF time + MAX_STEPS > step
        THEN LET S2 == set_flowing(S1, prod, eme, emp)
             IN  IF emp > 0 /\ Len(S2.lp[k]) < NUM_CESARO
                 THEN increaseCesaro(S2, time, source, prod, emp)
                 ELSE S2
        ELSE IF (eme - S.le[k][Len(S.le[k])]) * EPS_DEN <= EPS_NUM * eme
        THEN set_arrived(S1, time, source, prod, eme, 0)
        ELSE LET S2 == [S1 EXCEPT !.le[k] = Tail(@)]
             IN  IF Len(S2.lp[k]) < NUM_CESARO
                 THEN LET S3 == set_flowing(S2, prod, eme, emp)
                      IN  IF emp > 0
                          THEN increaseCesaro(S3, time, source, prod, emp)
                          ELSE S3
                 ELSE IF CesaroCriterion(S2, time, source, prod)
                 THEN set_arrived(S2, time, source, prod, eme, 0)
                 ELSE LET S3 == set_flowing(S2, prod, eme, emp)
                      IN  [S3 EXCEPT !.lp[k] = Append(Tail(@), emp)]

\* the else branch of convergence (criteria 1 and 2 failed): criteria 3, 4
aged_or_young(S, time, source, prod, eme, emp) ==
    LET k  == << time, source, prod >>
        S1 == [S EXCEPT !.le[k] = Append(@, eme)]
    IN  IF time + MAX_STEPS > step
        THEN LET S2 == set_flowing(S1, prod, eme, emp)
             IN  IF emp > 0 /\ Len(S2.lp[k]) < NUM_CESARO
                 THEN increaseCesaro(S2, time, source, prod, emp)
                 ELSE S2
        ELSE IF (eme - S1.le[k][1]) * EPS_DEN <= EPS_NUM * eme
        THEN set_arrived(S1, time, source, prod, eme, 0)
        ELSE LET S2 == [S1 EXCEPT !.le[k] = Tail(@)]
             IN  IF Len(S2.lp[k]) < NUM_CESARO
                 THEN LET S3 == set_flowing(S2, prod, eme, emp)
                      IN  IF emp > 0
                          THEN increaseCesaro(S3, time, source, prod, emp)
                          ELSE S3
                 ELSE IF CesaroCriterion(S2, time, source, prod)
                 THEN set_arrived(S2, time, source, prod, eme, 0)
                 ELSE LET S3 == set_flowing(S2, prod, eme, emp)
                      IN  [S3 EXCEPT !.lp[k] = Append(Tail(@), emp)]

\* a variant of classify that tries criterion 2 before criterion 1
classify_swapped(S, full, time, source, prod) ==
    LET t == time - start_step + 1
        s == source_node_number(source)
        eme == eme_coef[t][s][prod]
        emp == emp_coef[t][s][prod]
        int_input == integrated_input[t][source]
    IN  IF ~S.ap[t][source][prod] THEN S
        ELSE IF int_input = 0 THEN [S EXCEPT !.err = "ZeroDivisionError"]
        ELSE IF OneMinusLeqEps(eme, int_input)
        THEN set_arrived(S, time, source, prod, int_input, 0)
        ELSE IF OneMinusLeqEps(emp * TIME_STEP, int_input)
        THEN set_arrived(S, time, source, prod, int_input,
                         input_value[t][source] \div TIME_STEP)
        ELSE IF full
        THEN aged_or_young(S, time, source, prod, eme, emp)
        ELSE set_flowing(S, prod, eme, emp)

\* a variant of classify that applies criteria 3 and 4 in convergence2 too
classify_always_full(S, full, time, source, prod) ==
    LET t == time - start_step + 1
        s == source_node_number(source)
        eme == eme_coef[t][s][prod]
        emp == emp_coef[t][s][prod]
        int_input == integrated_input[t][source]
    IN  IF ~S.ap[t][source][prod] THEN S
        ELSE IF int_input = 0 THEN [S EXCEPT !.err = "ZeroDivisionError"]
        ELSE IF OneMinusLeqEps(emp * TIME_STEP, int_input)
        THEN set_arrived(S, time, source, prod, int_input,
                         input_value[t][source] \div TIME_STEP)
        ELSE IF OneMinusLeqEps(eme, int_input)
        THEN set_arrived(S, time, source, prod, int_input, 0)
        ELSE aged_or_young(S, time, source, prod, eme, emp)

\* the body of the innermost loop for (prod, source, time); full = TRUE for
\* convergence, FALSE for convergence2.  A zero int_input raises
\* ZeroDivisionError in criterion 1.
classify(S, full, time, source, prod) ==
    LET t == time - start_step + 1
        s == source_node_number(source)
        eme == eme_coef[t][s][prod]
        emp == emp_coef[t][s][prod]
        int_input == integrated_input[t][source]
    IN  IF ~S.ap[t][source][prod] THEN S
        ELSE IF int_input = 0 THEN [S EXCEPT !.err = "ZeroDivisionError"]
        ELSE IF OneMinusLeqEps(emp * TIME_STEP, int_input)
        THEN set_arrived(S, time, source, prod, int_input,
                         input_value[t][source] \div TIME_STEP)
        ELSE IF OneMinusLeqEps(eme, int_input)
        THEN set_arrived(S, time, source, prod, int_input, 0)
        ELSE IF full
        THEN aged_or_young(S, time, source, prod, eme, emp)
        ELSE set_flowing(S, prod, eme, emp)

\* a variant of reset_product that sets the accumulators of prod to 0.0 only
\* the first time, and lets them accumulate afterwards
keep_product(S, prod) ==
    IF prod \in DOMAIN S.arr THEN S
    ELSE [S EXCEPT !.arr = Put(@, prod, 0),
                   !.flo = Put(@, prod, 0),
                   !.emp = Put(@, prod, 0)]

\* the accumulators of prod are set to 0.0 when the loop reaches prod
reset_product(S, prod) ==
    [S EXCEPT !.arr = Put(@, prod, 0),
              !.flo = Put(@, prod, 0),
              !.emp = Put(@, prod, 0)]

\* the loops: products in order, sources in order, steps from step down to
\* start_step; an exception ends them
RECURSIVE conv_steps(_, _, _, _, _)
conv_steps(S, full, prod, source, time) ==
    IF time < start_step \/ S.err # "none" THEN S
    ELSE conv_steps(classify(S, full, time, source, prod),
                    full, prod, source, time - 1)

RECURSIVE conv_sources(_, _, _, _)
conv_sources(S, full, prod, source) ==
    IF source >= num_sources \/ S.err # "none" THEN S
    ELSE conv_sources(conv_steps(S, full, prod, source, step),
                      full, prod, source + 1)

RECURSIVE conv_loop(_, _, _)
conv_loop(S, full, prod) ==
    IF prod >= num_products \/ S.err # "none" THEN S
    ELSE conv_loop(conv_sources(reset_product(S, prod), full, prod, 0),
                   full, prod + 1)

Classified(full) ==
    LET S == conv_loop(ConvState, full, 0)
    IN  /\ active_product' = S.ap
        /\ last_eme_val' = S.le
        /\ last_emp_val' = S.lp
        /\ total_empower' = S.te
        /\ arrived_emergy' = S.arr
        /\ flowing_emergy' = S.flo
        /\ empower' = S.emp
        /\ arrivals' = S.log
        /\ observed' =
             [ k \in KeysOf(S.ap, start_step) |->
                 IF emp_coef[k[1] - start_step + 1]
                            [source_node_number(k[2])][k[3]] > 0
                 THEN Append(observed[k],
                             emp_coef[k[1] - start_step + 1]
                                     [source_node_number(k[2])][k[3]])
                 ELSE observed[k] ]
        /\ classified' = classified + 1
        /\ err' = S.err
        /\ pc' = IF S.err = "none" THEN "clean" ELSE "error"
        /\ UNCHANGED << net, graph, variant, solves, source_flow, is_operational, prev_flow, step,
                        start_step, node, suc, suc_time, suc_weight,
                        input_value, integrated_input, eme_coef, emp_coef >>

\* convergence()
Convergence ==
    /\ pc = "convergence"
    /\ variant = "convergence"
    /\ Classified(TRUE)

\* convergence2()
Convergence2 ==
    /\ pc = "convergence"
    /\ variant = "convergence2"
    /\ Classified(FALSE)


-----------------------------------------------------------------------------
(* clean *)

\* a variant of inactive_input that does not look at the flags
any_input(W, r, source) == W.input_value[r][source] >= 0

\* remove_inactive_inputs: (t, source) is an input, and no product reachable
\* from the source is active for it (r = t + 1 is the row)
inactive_input(W, r, source) ==
    /\ W.input_value[r][source] >= 0
    /\ LET prods == reachable(source_node_number(source))
       IN  \A k \in 1 .. Len(prods) :
              ~W.active_product[r][source][product_number(prods[k])]

\* a variant of remove_inactive_inputs that marks nothing inactive
keep_inputs(W) == W

\* remove_inactive_inputs()
remove_inactive_inputs(W) ==
    LET dim1 == step - start_step + 1
        gone(r, source) == r <= dim1 /\ inactive_input(W, r, source)
    IN  [W EXCEPT
          !.node = [ r \in 1 .. Len(@) |->
                     [ i \in Nodes |->
                        IF node_type(i) = 0 /\ gone(r, source_number(i))
                        THEN FALSE ELSE @[r][i] ] ],
          !.input_value = [ r \in 1 .. Len(@) |->
                            [ s \in Sources |->
                               IF gone(r, s) THEN -ONE ELSE @[r][s] ] ],
          !.integrated_input = [ r \in 1 .. Len(@) |->
                                 [ s \in Sources |->
                                    IF gone(r, s) THEN -ONE ELSE @[r][s] ] ] ]

\* a variant of find_earliest_active_source that always answers the last
\* index of the range
latest_index(W) == step - start_step

\* find_earliest_active_source(): the first index t in range(step -
\* start_step + 1) with an input, and the last index of the range if none
find_earliest_active_source(W) ==
    LET dim1 == step - start_step + 1
        act  == { t \in 0 .. dim1 - 1 :
                    \E s \in Sources : W.input_value[t + 1][s] >= 0 }
    IN  IF act # {} THEN CHOOSE t \in act : \A u \in act : t <= u
        ELSE dim1 - 1

\* clean(): remove_inactive_inputs, then remove_nodes_before_start_step
Clean ==
    /\ pc = "clean"
    /\ LET W1 == remove_inactive_inputs(Win)
           t  == find_earliest_active_source(W1)
       IN  IF t >= 0
           THEN /\ start_step' = start_step + t
                /\ SetWin(reduce(W1, t))
           ELSE /\ start_step' = start_step
                /\ SetWin(W1)
    /\ pc' = "set_step"
    /\ solves' = 0
    /\ classified' = 0
    /\ UNCHANGED << net, graph, variant, source_flow, is_operational, prev_flow, step,
                    eme_coef, emp_coef, last_eme_val, last_emp_val,
                    total_empower, arrived_emergy, flowing_emergy, empower,
                    arrivals, err,
                    observed >>

-----------------------------------------------------------------------------
(* number_of_nodes *)

\* number_of_nodes(): np.count_nonzero(self.active_product)
number_of_nodes ==
    Cardinality({ e \in (1 .. Len(active_product)) \X Sources \X Products :
                    active_product[e[1]][e[2]][e[3]] })

-----------------------------------------------------------------------------
(* The driver: it feeds the scenario of a step and runs the phases in      *)
(* order: add_inputs, unfold, compute_emergy, convergence or convergence2, *)
(* clean.  compute_emergy may be called again between the last two.        *)

Flows == GraphFlows(net)

SourceNodes == { i \in Nodes : node_type(i) = 0 }

\* set_step(step + 1), with the Scenario Feed of the new step
SetStep ==
    /\ pc = "set_step"
    /\ step < MaxStep
    /\ step' = step + 1
    /\ prev_flow' = source_flow
    /\ \E flow \in [SourceNodes -> Flows], down \in GraphDowns(net),
          absent \in GraphAbsent(net) :
          /\ source_flow' = flow
          /\ is_operational' = [ l \in LinkKeys \ absent |-> l \notin down ]
    /\ pc' = "add_inputs"
    /\ UNCHANGED << net, graph, variant, start_step, node, suc, suc_time, suc_weight,
                    input_value, integrated_input, active_product, eme_coef,
                    emp_coef, last_eme_val, last_emp_val, total_empower,
                    arrived_emergy, flowing_emergy, empower, arrivals, err, solves,
                    observed, classified >>

\* a second compute_emergy() at the same step, after the classification call
ReSolve ==
    /\ pc = "clean"
    /\ solves < MaxSolves
    /\ classified = 1
    /\ solves' = solves + 1
    /\ eme_coef' = emergy_coefficients(ZeroTable(step - start_step + 1))
    /\ emp_coef' = empower_coefficients(ZeroTable(step - start_step + 1))
    /\ UNCHANGED << net, graph, variant, source_flow, is_operational, prev_flow, step,
                    start_step, node, suc, suc_time, suc_weight, input_value,
                    integrated_input, active_product, last_eme_val,
                    last_emp_val, total_empower, arrived_emergy,
                    flowing_emergy, empower, arrivals, pc, err,
                    observed, classified >>

\* a second convergence() or convergence2() call at the same step, before
\* clean(), at a step where the first call declared an arrival
ReClassify ==
    /\ pc = "clean"
    /\ classified < MaxClassified
    /\ arrivals # << >>
    /\ Classified(variant = "convergence")

\* __init__ and first_step, and the scenario of step 0
Init ==
    /\ net \in Nets
    /\ graph = Built[net]
    /\ variant \in { "convergence", "convergence2" }
    /\ \E down \in GraphDowns(net), absent \in GraphAbsent(net) :
          is_operational = [ l \in LinkKeys \ absent |-> l \notin down ]
    /\ source_flow \in [SourceNodes -> Flows]
    /\ prev_flow = [ i \in SourceNodes |-> 0 ]
    /\ step = 0
    /\ start_step = 0
    /\ node = first_step.node
    /\ suc = first_step.suc
    /\ suc_time = first_step.suc_time
    /\ suc_weight = first_step.suc_weight
    /\ input_value = first_step.input_value
    /\ integrated_input = first_step.integrated_input
    /\ active_product = first_step.active_product
    /\ eme_coef = << >>
    /\ emp_coef = << >>
    /\ last_eme_val = EmptyDict
    /\ last_emp_val = EmptyDict
    /\ total_empower = EmptyDict
    /\ arrived_emergy = EmptyDict
    /\ flowing_emergy = EmptyDict
    /\ empower = EmptyDict
    /\ arrivals = << >>
    /\ solves = 0
    /\ classified = 0
    /\ observed = EmptyDict
    /\ pc = "add_inputs"
    /\ err = "none"

Next ==
    \/ SetStep
    \/ AddInputs
    \/ Unfold
    \/ ComputeEmergy
    \/ ReSolve
    \/ Convergence
    \/ Convergence2
    \/ Clean

Spec == Init /\ [][Next]_vars

\* the driver that may call the classification a second time at a step
NextTwice ==
    \/ Next
    \/ ReClassify

SpecTwice == Init /\ [][NextTwice]_vars

-----------------------------------------------------------------------------
(* What the properties below observe *)

\* the Active-Product Flag of (t, s, p) in the flags ap of a window that
\* starts at step st: the row of t is retained and the flag is true
ActiveIn(ap, st, t, s, p) ==
    /\ t >= st
    /\ t - st + 1 <= Len(ap)
    /\ ap[t - st + 1][s][p]

Keys == KeysOf(active_product, start_step)

\* the steps <= step at which some input still has a flag true
PendingSteps == { k[1] : k \in { c \in Keys : c[1] <= step } }

\* the sum of the values of a function with a finite domain
RECURSIVE SumFn(_)
SumFn(f) ==
    IF DOMAIN f = {} THEN 0
    ELSE LET x == CHOOSE y \in DOMAIN f : TRUE
         IN  f[x] + SumFn([ y \in DOMAIN f \ {x} |-> f[y] ])

\* a step of clean()
CleanStep == pc = "clean" /\ pc' = "set_step"

-----------------------------------------------------------------------------
(* C1 *)

\* C1: clean() never removes the row of a step t for which some flag
\* active_product[t, s, p] is true when it is called: every (t, s, p) that
\* is active before the call is retained, active and at index
\* t - start_step after the call.
C1_CleanKeepsActive ==
    [][ CleanStep =>
          \A t \in 0 .. step, s \in Sources, p \in Products :
             ActiveIn(active_product, start_step, t, s, p)
                => ActiveIn(active_product', start_step', t, s, p) ]_vars

\* clean() has discarded rows and has kept the row of a pending input of an
\* earlier step
C1_Witness ==
    /\ pc = "set_step"
    /\ start_step > 0
    /\ \E k \in Keys : k[1] < step

-----------------------------------------------------------------------------
(* C6 *)

\* C6: after every clean() call start_step is the earliest step <= step at
\* which some input still has a flag true, and the step itself when no input
\* is pending; the rows of the earlier steps are discarded by the call;
\* start_step never decreases and never exceeds the current step.
C6_StartStep ==
    /\ [](pc = "set_step" =>
            IF PendingSteps = {} THEN start_step = step
            ELSE /\ start_step \in PendingSteps
                 /\ \A t \in PendingSteps : start_step <= t)
    /\ [](start_step <= step)
    /\ [][ /\ start_step' >= start_step
           /\ CleanStep => Len(node') = Len(node) - (start_step' - start_step)
       ]_vars

\* clean() has moved start_step to a pending step before the current one
C6_Witness ==
    /\ pc = "set_step"
    /\ start_step > 0
    /\ start_step < step
    /\ start_step \in PendingSteps

-----------------------------------------------------------------------------
(* C8 *)

\* the inputs (t, s) add_inputs registers in the step to the next state, one
\* key per product reachable from s
Registered ==
    { k \in {step} \X Sources \X Products :
        /\ input_value'[step - start_step + 1][k[2]] >= 0
        /\ \E n \in 1 .. Len(reachable(source_node_number(k[2]))) :
              product_number(reachable(source_node_number(k[2]))[n]) = k[3] }

\* C8: in every state the key sets of last_eme_val, last_emp_val and
\* total_empower are equal to the set of (t, s, p) whose flag is true in the
\* retained window; add_inputs creates the entries of the inputs it
\* registers, with empty histories and total 0, a classification call removes
\* the entries of the arrivals it declares, and no other operation, clean()
\* included, changes the key set.
C8_ConvergenceKeys ==
    /\ [](/\ DOMAIN last_eme_val = Keys
          /\ DOMAIN last_emp_val = Keys
          /\ DOMAIN total_empower = Keys)
    /\ [][ /\ pc = "add_inputs" /\ pc' = "unfold" =>
                /\ Keys \subseteq Keys'
                /\ Keys' \ Keys = Registered
                /\ \A k \in Keys' \ Keys :
                      /\ last_eme_val'[k] = << >>
                      /\ last_emp_val'[k] = << >>
                      /\ total_empower'[k] = 0
           /\ pc = "convergence" =>
                /\ Keys' \subseteq Keys
                /\ Keys \ Keys' =
                     { << arrivals'[n].t, arrivals'[n].s, arrivals'[n].p >> :
                         n \in 1 .. Len(arrivals') }
           /\ pc \notin { "add_inputs", "convergence" } => Keys' = Keys
       ]_vars

\* a classification call has declared an arrival and has left another
\* candidate pending
C8_Witness ==
    /\ pc = "clean"
    /\ arrivals # << >>
    /\ Keys # {}
    /\ DOMAIN total_empower = Keys

-----------------------------------------------------------------------------
(* C9 *)

\* C9: for every candidate (t, s, p) whose flag is true when convergence()
\* or convergence2() runs, integrated_input[t, s] is strictly positive, the
\* candidates of a terminating zero-value event included, and the call
\* raises no ZeroDivisionError.
C9_PositiveIntegratedInput ==
    /\ pc = "convergence" =>
         \A k \in Keys : integrated_input[k[1] - start_step + 1][k[2]] > 0
    /\ err # "ZeroDivisionError"

\* a classification call is about to run on the candidate of a terminating
\* zero-value event
C9_Witness ==
    /\ pc = "convergence"
    /\ \E k \in Keys :
          /\ input_value[k[1] - start_step + 1][k[2]] = 0
          /\ integrated_input[k[1] - start_step + 1][k[2]] > 0

-----------------------------------------------------------------------------
(* C10 *)

\* the arrivals of the last classification call for product p
ArrivalsOf(p) == { n \in 1 .. Len(arrivals) : arrivals[n].p = p }

\* the candidates of product p the last classification call left pending
PendingOf(p) == { k \in Keys : k[3] = p }

\* C10: after a convergence() or convergence2() call, arrived_emergy[p] is
\* the sum of the values of the candidates declared arrived in this call,
\* each the integrated input or the emergy coefficient of the candidate, and
\* flowing_emergy[p] is the sum of eme over the candidates the call leaves
\* pending: nothing is carried over from earlier calls.
C10_AccumulatorsRebuilt ==
    pc = "clean" /\ solves = 1 =>
      \A p \in Products :
         /\ arrived_emergy[p] =
              SumFn([ n \in ArrivalsOf(p) |-> arrivals[n].eme ])
         /\ \A n \in ArrivalsOf(p) :
               arrivals[n].eme \in
                 { integrated_input[arrivals[n].t - start_step + 1][arrivals[n].s],
                   eme_coef[arrivals[n].t - start_step + 1]
                           [source_node_number(arrivals[n].s)][p] }
         /\ flowing_emergy[p] =
              SumFn([ k \in PendingOf(p) |->
                        eme_coef[k[1] - start_step + 1]
                                [source_node_number(k[2])][p] ])

\* a call after the first one has declared an arrival for a product and has
\* left a candidate of the same product flowing
C10_Witness ==
    /\ pc = "clean"
    /\ solves = 1
    /\ step >= 1
    /\ \E p \in Products :
          /\ ArrivalsOf(p) # {}
          /\ arrived_emergy[p] > 0
          /\ flowing_emergy[p] > 0

-----------------------------------------------------------------------------
(* C2 *)

\* the raw magnitude flow * uev * time_step of source number s at the
\* previous step
PreviousMagnitude(s) == InputVal(prev_flow, s)

\* add_inputs has admitted the terminating event of source s at the current
\* step and has registered it like any other input
TerminatingEvent(s) ==
    LET t == step - start_step + 1
        prods == reachable(source_node_number(s))
    IN  /\ input_value[t][s] = 0
        /\ integrated_input[t][s] = Half(PreviousMagnitude(s))
        /\ integrated_input[t][s] > 0
        /\ node[t][source_node_number(s)]
        /\ \A n \in 1 .. Len(prods) :
              << step, s, product_number(prods[n]) >> \in Keys

\* add_inputs has admitted no event of source s at the current step
NoEvent(s) ==
    /\ input_value[step - start_step + 1][s] < 0
    /\ \A p \in Products : << step, s, p >> \notin Keys

\* C2: at every step t >= 1, for a source whose raw magnitude is <= 0 at
\* step t, add_inputs admits the terminating event (value 0, integrated
\* value half the previous magnitude, registered like any input) when the
\* magnitude was > 0 at step t - 1, and admits no event when it was <= 0,
\* whatever classification and clean() did at the end of step t - 1.
C2_TerminatingEvent ==
    pc = "unfold" /\ step >= 1 =>
      \A s \in Sources :
         InputVal(source_flow, s) <= 0 =>
            IF PreviousMagnitude(s) > 0 THEN TerminatingEvent(s)
                                        ELSE NoEvent(s)

-----------------------------------------------------------------------------
(* C3 *)

\* node (t, i) has been unfolded: unfold runs once per step, on the nodes of
\* the step, after add_inputs
Unfolded(t, i) ==
    \/ t < step
    \/ t = step /\ pc \notin { "add_inputs", "unfold" }

\* the existence bit of (t, i) in the bits nd of a window that starts at st
ExistsIn(nd, st, t, i) ==
    /\ t >= st
    /\ t - st + 1 <= Len(nd)
    /\ nd[t - st + 1][i]

\* the bit of (t, i) is set, its row is retained by the step and the bit is
\* cleared by the step
Cleared(t, i) ==
    /\ ExistsIn(node, start_step, t, i)
    /\ t >= start_step'
    /\ ~ExistsIn(node', start_step', t, i)

\* the steps the window has a row for
WindowSteps == start_step .. start_step + Len(node) - 1

\* C3 as stated: a bit that is set is never cleared while its row is
\* retained, except by inactive-input removal for a source node that has not
\* been unfolded yet.
C3_ClearedBeforeUnfolding ==
    [][ \A t \in WindowSteps, i \in Nodes :
           Cleared(t, i) =>
              /\ CleanStep
              /\ node_type(i) = 0
              /\ ~Unfolded(t, i) ]_vars

\* C3: a bit that is set is never cleared while its row is retained, except
\* by the inactive-input removal of clean(), which clears the bit of a source
\* node (t, i) that is an input with no flag left true; the node has been
\* unfolded by then.
C3_ClearedWhenInactive ==
    [][ \A t \in WindowSteps, i \in Nodes :
           Cleared(t, i) =>
              /\ CleanStep
              /\ node_type(i) = 0
              /\ input_value[t - start_step + 1][source_number(i)] >= 0
              /\ \A p \in Products : << t, source_number(i), p >> \notin Keys
              /\ Unfolded(t, i) ]_vars

\* clean() has cleared the bit of a source node in a retained row, and the
\* arcs its unfolding recorded are still there
C3_Witness ==
    /\ pc = "set_step"
    /\ \E r \in 1 .. Len(node), i \in Nodes :
          /\ node_type(i) = 0
          /\ ~node[r][i]
          /\ \E j \in Nodes : suc[r][i][j]

-----------------------------------------------------------------------------
(* C4 *)

\* a compute_emergy() call that is not the first one since the last unfold
SecondSolve == solves >= 1 /\ solves' = solves + 1

\* C4 as stated: two compute_emergy() calls at the same step separated by no
\* unfold and no clean produce identical tables, a classification call
\* between them or not.
C4_SolveTwice ==
    [][ SecondSolve => eme_coef' = eme_coef /\ emp_coef' = emp_coef ]_vars

\* C4: two compute_emergy() calls at the same step separated by no unfold, no
\* clean and no classification call that declares an arrival produce
\* identical tables.
C4_SolveTwiceNoArrival ==
    [][ SecondSolve /\ (solves > 1 \/ arrivals = << >>)
           => eme_coef' = eme_coef /\ emp_coef' = emp_coef ]_vars

\* compute_emergy() has been called again after a classification call that
\* declared no arrival, on a table with a nonzero coefficient
C4_Witness ==
    /\ pc = "clean"
    /\ solves = 2
    /\ arrivals = << >>
    /\ Keys # {}
    /\ \E r \in 1 .. Len(eme_coef), i \in Nodes, p \in Products :
          eme_coef[r][i][p] > 0 /\ node_type(i) = 0

-----------------------------------------------------------------------------
(* C5 *)

\* weight * coefficient of the successor, for the recorded arcs of the node
\* i of row r whose target step is <= step
ArcValues(coef, r, i, p) ==
    { Mul(suc_weight[r][i][j], coef[suc_time[r][i][j] - start_step + 1][j][p]) :
        j \in { n \in Nodes : suc[r][i][n] /\ suc_time[r][i][n] <= step } }

\* the maximum of a set of values, 0 when it is empty
MaxOf(S) == IF S = {} THEN 0 ELSE CHOOSE x \in S : \A y \in S : y <= x

\* C5: after a solve, for every existing coproduct node (t, i) and product
\* p, the emergy coefficient and the empower coefficient are each the maximum
\* over the recorded arcs whose target step is <= step of arc weight times
\* the coefficient of the successor at the target step, and 0 without such
\* an arc.
C5_CoproductMax ==
    pc = "convergence" =>
      \A r \in 1 .. step - start_step + 1, i \in Nodes, p \in Products :
         node[r][i] /\ node_type(i) = 2 =>
            /\ eme_coef[r][i][p] = MaxOf(ArcValues(eme_coef, r, i, p))
            /\ emp_coef[r][i][p] = MaxOf(ArcValues(emp_coef, r, i, p))

-----------------------------------------------------------------------------
(* C7 *)

\* the largest delay of a link, in steps
MaxDelay ==
    CHOOSE d \in { num_steps(l[1], l[2]) : l \in LinkKeys } :
       \A l \in LinkKeys : num_steps(l[1], l[2]) <= d

\* C7: after every clean() call the number of rows of the window arrays is
\* at most step - start_step + 1 plus the largest delay of an arc in steps.
C7_WindowRows ==
    pc = "set_step" =>
      \A f \in DOMAIN Win :
         Len(Win[f]) <= (step - start_step + 1) + MaxDelay

-----------------------------------------------------------------------------
(* C11: the running total of a pending candidate against the positive      *)
(* empower samples the convergence() calls have met for it.                *)

\* the first n elements of a sequence (all of them when it is shorter)
FirstN(q, n) == SubSeq(q, 1, IF Len(q) < n THEN Len(q) ELSE n)

\* C11 as stated: for every pending candidate, total_empower equals the sum
\* of all the positive empower samples met by the convergence() calls since
\* its registration, those met after the window was full included
C11_TotalOfAllSamples ==
    variant = "convergence" =>
        \A k \in Keys : total_empower[k] = SeqSum(observed[k])

\* C11 amended: for every pending candidate, total_empower equals the sum of
\* the first NUM_CESARO positive empower samples met by the convergence()
\* calls since its registration (of all of them while there are fewer)
C11_TotalOfFirstSamples ==
    variant = "convergence" =>
        \A k \in Keys :
            total_empower[k] = SeqSum(FirstN(observed[k], NUM_CESARO))

\* a pending candidate has met more than NUM_CESARO positive samples
C11_Witness ==
    /\ variant = "convergence"
    /\ \E k \in Keys : Len(observed[k]) > NUM_CESARO

-----------------------------------------------------------------------------
(* C12: a negative source input magnitude at admission.                    *)

\* the engine state: the window arrays, its start, the convergence state,
\* the coefficient tables and the product accumulators
engine ==
    << node, suc, suc_time, suc_weight, input_value, integrated_input,
       active_product, start_step, last_eme_val, last_emp_val,
       total_empower, eme_coef, emp_coef, arrived_emergy, flowing_emergy,
       empower >>

\* some source is fed a negative magnitude at the current step
NegativeInput == \E s \in Sources : InputVal(source_flow, s) < 0

\* C12: add_inputs with a negative source input magnitude ends in an error
\* and leaves the engine state unchanged (the magnitude is not silently
\* treated as a zero or absent input)
C12_NegativeRejected ==
    [][ (pc = "add_inputs" /\ NegativeInput)
            => (pc' = "error" /\ engine' = engine) ]_vars

-----------------------------------------------------------------------------
(* C13: a phase that raises an error part-way.                             *)

\* C13: when a phase (add_inputs, unfold, compute_emergy, convergence,
\* clean) raises an error, the engine state equals the state before that
\* phase began: nothing the failed phase wrote remains
C13_FailedPhaseAtomic ==
    [][ (pc # "error" /\ pc' = "error") => engine' = engine ]_vars

-----------------------------------------------------------------------------
(* C14: the direction of the recorded arcs.                                *)

\* C14: every arc recorded in the unfolded graph points strictly forward in
\* time: an arc from (t, i) to (t', j) has t' > t
C14_StrictlyForward ==
    \A r \in 1 .. Len(suc) : \A i \in Nodes, j \in Nodes :
        suc[r][i][j] => suc_time[r][i][j] > start_step + r - 1

-----------------------------------------------------------------------------
(* C16: the value number_of_nodes() returns.                               *)

\* the (step, node) pairs of the retained window whose existence bit is set
NodeBits == { e \in (1 .. Len(node)) \X Nodes : node[e[1]][e[2]] }

\* C16: number_of_nodes() returns the number of nodes of the unfolded graph,
\* the number of (step, node) pairs whose existence bit is set in the window
C16_CountsNodeBits == number_of_nodes = Cardinality(NodeBits)

-----------------------------------------------------------------------------
(* C17 .. C20: what one convergence() call does to each pending candidate. *)
(* The criteria are written here from their definitions, on the state the  *)
(* call starts from.                                                       *)

\* a convergence() call
ConvergenceStep == variant = "convergence" /\ pc = "convergence" /\ pc' = "clean"

\* the current emergy and empower of candidate k, its integrated input and
\* its raw input value
EmeOf(k) == eme_coef[k[1] - start_step + 1][source_node_number(k[2])][k[3]]

EmpOf(k) == emp_coef[k[1] - start_step + 1][source_node_number(k[2])][k[3]]

IntOf(k) == integrated_input[k[1] - start_step + 1][k[2]]

RawOf(k) == input_value[k[1] - start_step + 1][k[2]]

\* 1 - emp * time_step / I <= EPSILON, for I > 0
Criterion1(k) ==
    (IntOf(k) - EmpOf(k) * TIME_STEP) * EPS_DEN <= EPS_NUM * IntOf(k)

\* 1 - eme / I <= EPSILON, for I > 0
Criterion2(k) == (IntOf(k) - EmeOf(k)) * EPS_DEN <= EPS_NUM * IntOf(k)

\* the call declares k arrived with the amounts eme and emp
ArrivedWith(k, eme, emp) ==
    /\ \E n \in 1 .. Len(arrivals') :
          arrivals'[n] = [ t |-> k[1], s |-> k[2], p |-> k[3],
                           eme |-> eme, emp |-> emp ]
    /\ k \notin Keys'
    /\ k \notin DOMAIN last_eme_val'
    /\ k \notin DOMAIN last_emp_val'

\* C17: in convergence(), a pending candidate with 1 - emp*time_step/I <=
\* EPSILON is declared arrived with the amounts I and input_value/time_step;
\* otherwise, one with 1 - eme/I <= EPSILON is declared arrived with I and 0.
\* In both cases its flag is cleared, its histories get no sample (they are
\* removed), and flowing_emergy[p] only holds the eme of the candidates
\* that stay pending
C17_FirstTwoCriteria ==
    [][ ConvergenceStep =>
          /\ \A k \in Keys :
                /\ Criterion1(k) =>
                      ArrivedWith(k, IntOf(k), RawOf(k) \div TIME_STEP)
                /\ ~Criterion1(k) /\ Criterion2(k) =>
                      ArrivedWith(k, IntOf(k), 0)
          /\ \A p \in Products :
                flowing_emergy'[p] =
                  SumFn([ k \in { c \in Keys' : c[3] = p } |-> EmeOf(k) ])
      ]_vars

\* a convergence() call has declared a candidate arrived by the emergy
\* criterion alone (amount I, while emp * time_step stays far from I)
C17_Witness ==
    /\ variant = "convergence" /\ pc = "clean" /\ solves = 1
    /\ \E n \in 1 .. Len(arrivals) :
          LET k == << arrivals[n].t, arrivals[n].s, arrivals[n].p >>
          IN  /\ arrivals[n].emp = 0
              /\ arrivals[n].eme = IntOf(k)
              /\ ~Criterion1(k)

\* the origin step of k is within MAX_STEPS of the current step
Young(k) == k[1] + MAX_STEPS > step

\* k fails criteria 1 and 2
Unsettled(k) == ~Criterion1(k) /\ ~Criterion2(k)

\* the call leaves k pending and does not declare it arrived
StaysPending(k) ==
    /\ k \in Keys'
    /\ \A n \in 1 .. Len(arrivals') :
          << arrivals'[n].t, arrivals'[n].s, arrivals'[n].p >> # k

\* C18: in convergence(), a candidate that fails criteria 1 and 2 and is
\* still young stays pending: eme is appended to its emergy history; emp is
\* appended to its positive-empower history and added to its running total
\* exactly when emp is positive and that history holds fewer than NUM_CESARO
\* samples; and empower[p] is the sum of the amounts of this call's arrivals
\* and of emp over the candidates that stay pending
C18_StillYoung ==
    [][ ConvergenceStep =>
          /\ \A k \in Keys :
                Unsettled(k) /\ Young(k) =>
                  /\ StaysPending(k)
                  /\ last_eme_val'[k] = Append(last_eme_val[k], EmeOf(k))
                  /\ IF EmpOf(k) > 0 /\ Len(last_emp_val[k]) < NUM_CESARO
                     THEN /\ last_emp_val'[k] =
                               Append(last_emp_val[k], EmpOf(k))
                          /\ total_empower'[k] = total_empower[k] + EmpOf(k)
                     ELSE /\ last_emp_val'[k] = last_emp_val[k]
                          /\ total_empower'[k] = total_empower[k]
          /\ \A p \in Products :
                empower'[p] =
                  SumFn([ n \in { m \in 1 .. Len(arrivals') :
                                    arrivals'[m].p = p } |-> arrivals'[n].emp ])
                  + SumFn([ k \in { c \in Keys' : c[3] = p } |-> EmpOf(k) ])
      ]_vars

\* a convergence() call has met a young candidate with a positive empower
\* sample while its positive-empower history was full: the candidate is
\* pending, has met more positive samples than its history holds, and its
\* emergy history has not yet dropped a sample
C18_Witness ==
    /\ variant = "convergence" /\ pc = "clean"
    /\ \E k \in Keys :
          /\ k[1] + MAX_STEPS > step
          /\ Len(observed[k]) > NUM_CESARO
          /\ Len(last_emp_val[k]) = NUM_CESARO
          /\ Len(last_eme_val[k]) = step - k[1] + 1

\* the emergy history of k once the call has appended the current eme
WithCurrent(k) == Append(last_eme_val[k], EmeOf(k))

\* eme - oldest recorded eme <= EPSILON * eme
Stalled(k) ==
    (EmeOf(k) - WithCurrent(k)[1]) * EPS_DEN <= EPS_NUM * EmeOf(k)

\* k fails criteria 1 and 2 and its origin step is MAX_STEPS or more back
Aged(k) == Unsettled(k) /\ ~Young(k)

\* C19: in convergence(), an aged candidate (criteria 1 and 2 failed,
\* t + MAX_STEPS <= step) is declared arrived with the amounts eme and 0 when
\* eme minus the oldest recorded emergy sample is <= EPSILON * eme; otherwise
\* the current eme is recorded and the oldest sample dropped, if the
\* candidate stays pending, and only a candidate whose positive-empower
\* history is full can still be declared arrived.  Between calls an emergy
\* history holds at most MAX_STEPS samples (MAX_STEPS + 1 inside a call)
C19_StalledOrDropOldest ==
    /\ [][ ConvergenceStep =>
            \A k \in Keys :
               Aged(k) =>
                 IF Stalled(k)
                 THEN ArrivedWith(k, EmeOf(k), 0)
                 ELSE IF k \in Keys'
                      THEN /\ last_eme_val'[k] = Tail(WithCurrent(k))
                           /\ Len(last_eme_val'[k]) = Len(last_eme_val[k])
                      ELSE Len(last_emp_val[k]) = NUM_CESARO
        ]_vars
    /\ [](variant = "convergence" =>
            \A k \in DOMAIN last_eme_val : Len(last_eme_val[k]) <= MAX_STEPS)

\* convergence() calls have declared an aged candidate stalled, and have
\* dropped the oldest emergy sample of another one, whose history is full
C19_Witness ==
    /\ variant = "convergence" /\ pc = "clean" /\ solves = 1
    /\ \E n \in 1 .. Len(arrivals) :
          LET k == << arrivals[n].t, arrivals[n].s, arrivals[n].p >>
          IN  /\ k[1] + MAX_STEPS <= step
              /\ arrivals[n].emp = 0
              /\ arrivals[n].eme = EmeOf(k)
              /\ arrivals[n].eme < IntOf(k)
              /\ Unsettled(k)
    /\ \E k \in Keys :
          /\ k[1] + MAX_STEPS <= step
          /\ Len(last_eme_val[k]) = MAX_STEPS

\* k is aged and not stalled: it reaches the empower-history branch
Unstalled(k) == Aged(k) /\ ~Stalled(k)

\* the number of positive samples of a sequence
Positives(q) == Cardinality({ n \in 1 .. Len(q) : q[n] > 0 })

\* the average of the positive-empower window of k is below
\* T / NUM_CESARO * EPSILON, T the running total of k (the average is the
\* sum of the window over the number of its positive samples, and the test
\* fails when there is none)
CesaroTest(k) ==
    /\ Positives(last_emp_val[k]) > 0
    /\ SeqSum(last_emp_val[k]) * NUM_CESARO * EPS_DEN
         < total_empower[k] * EPS_NUM * Positives(last_emp_val[k])

\* the branch of an aged, not stalled candidate once its history is full
FullHistoryBranch(k) ==
    IF CesaroTest(k)
    THEN ArrivedWith(k, EmeOf(k), 0)
    ELSE /\ StaysPending(k)
         /\ last_emp_val'[k] = Append(Tail(last_emp_val[k]), EmpOf(k))
         /\ Len(last_emp_val'[k]) = NUM_CESARO
         /\ total_empower'[k] = total_empower[k]

\* C20 as stated: in convergence(), an aged, not stalled candidate whose
\* positive-empower history holds fewer than NUM_CESARO samples stays
\* flowing and a sample is appended to the history; once the history is
\* full the candidate is declared arrived with (eme, 0) if and only if the
\* average of the window is < T / NUM_CESARO * EPSILON, and otherwise it
\* stays flowing and the window drops its oldest sample and takes the
\* current emp, keeping NUM_CESARO samples
C20_SampleAlwaysAppended ==
    [][ ConvergenceStep =>
          \A k \in Keys :
             Unstalled(k) =>
               IF Len(last_emp_val[k]) < NUM_CESARO
               THEN /\ StaysPending(k)
                    /\ last_emp_val'[k] = Append(last_emp_val[k], EmpOf(k))
               ELSE FullHistoryBranch(k)
      ]_vars

\* C20 amended: as above, except that while the history is not full the
\* current emp is appended (and added to T) only when it is positive
C20_PositiveSampleAppended ==
    [][ ConvergenceStep =>
          \A k \in Keys :
             Unstalled(k) =>
               IF Len(last_emp_val[k]) < NUM_CESARO
               THEN /\ StaysPending(k)
                    /\ IF EmpOf(k) > 0
                       THEN /\ last_emp_val'[k] =
                                 Append(last_emp_val[k], EmpOf(k))
                            /\ total_empower'[k] =
                                 total_empower[k] + EmpOf(k)
                       ELSE /\ last_emp_val'[k] = last_emp_val[k]
                            /\ total_empower'[k] = total_empower[k]
               ELSE FullHistoryBranch(k)
      ]_vars

\* a convergence() call has met an aged, not stalled candidate whose history
\* is not full with a zero empower sample (the candidate is still pending,
\* so it was not stalled), and the full window of another candidate has
\* slid (it no longer holds the first samples the candidate met)
C20_Witness ==
    /\ variant = "convergence" /\ pc = "clean" /\ solves = 1
    /\ \E k \in Keys :
          /\ k[1] + MAX_STEPS <= step
          /\ Len(last_emp_val[k]) < NUM_CESARO
          /\ EmpOf(k) = 0
          /\ Unsettled(k)
    /\ \E k \in Keys :
          /\ Len(last_emp_val[k]) = NUM_CESARO
          /\ last_emp_val[k] # FirstN(observed[k], NUM_CESARO)

-----------------------------------------------------------------------------
(* C21: what one convergence2() call does to each pending candidate.       *)

\* a convergence2() call
Convergence2Step ==
    variant = "convergence2" /\ pc = "convergence" /\ pc' = "clean"

\* C21: convergence2() applies criteria 1 and 2 with the outcomes they have
\* in convergence(); a candidate that fails both stays pending whatever its
\* age, is not declared arrived, and its emergy history, empower history and
\* running total are unchanged; flowing_emergy[p] is the sum of eme over the
\* candidates that stay pending and empower[p] the sum of the arrivals'
\* amounts and of emp over the candidates that stay pending
C21_OnlyTwoCriteria ==
    [][ Convergence2Step =>
          /\ \A k \in Keys :
                /\ Criterion1(k) =>
                      ArrivedWith(k, IntOf(k), RawOf(k) \div TIME_STEP)
                /\ ~Criterion1(k) /\ Criterion2(k) =>
                      ArrivedWith(k, IntOf(k), 0)
                /\ Unsettled(k) =>
                      /\ StaysPending(k)
                      /\ last_eme_val'[k] = last_eme_val[k]
                      /\ last_emp_val'[k] = last_emp_val[k]
                      /\ total_empower'[k] = total_empower[k]
          /\ \A p \in Products :
                /\ flowing_emergy'[p] =
                     SumFn([ k \in { c \in Keys' : c[3] = p } |-> EmeOf(k) ])
                /\ empower'[p] =
                     SumFn([ n \in { m \in 1 .. Len(arrivals') :
                                       arrivals'[m].p = p } |->
                               arrivals'[n].emp ])
                     + SumFn([ k \in { c \in Keys' : c[3] = p } |-> EmpOf(k) ])
      ]_vars

\* a convergence2() call has left pending a candidate that fails criteria 1
\* and 2 and whose origin step is MAX_STEPS or more back, with a positive
\* current empower and still empty histories
C21_Witness ==
    /\ variant = "convergence2" /\ pc = "clean" /\ solves = 1
    /\ \E k \in Keys :
          /\ k[1] + MAX_STEPS <= step
          /\ Unsettled(k)
          /\ EmpOf(k) > 0
          /\ last_eme_val[k] = << >>
          /\ last_emp_val[k] = << >>

-----------------------------------------------------------------------------
(* C22 .. C24: the coefficient tables a solve leaves, read in the state    *)
(* right after it.                                                         *)

\* the tables are those of a solve of the current state
Solved == pc = "convergence" \/ (pc = "clean" /\ solves >= 2)

\* the rows of the coefficient tables
TableRows == 1 .. Len(eme_coef)

\* the successors j of (r, i) with a recorded arc whose target step is
\* <= step
Resolved(r, i) == { j \in Nodes : suc[r][i][j] /\ suc_time[r][i][j] <= step }

\* the sum over the resolved arcs of (r, i) of arc weight times the
\* coefficient of the successor at the target step
SumArcs(coef, r, i, p) ==
    SumFn([ j \in Resolved(r, i) |->
              Mul(suc_weight[r][i][j],
                  coef[suc_time[r][i][j] - start_step + 1][j][p]) ])

C23_ProductCoefficients ==
    Solved =>
      \A r \in TableRows, i \in Nodes, p \in Products :
         node[r][i] /\ node_type(i) = 4 =>
           /\ eme_coef[r][i][p] =
                IF i = product_node_number(p) THEN ONE ELSE 0
           /\ emp_coef[r][i][p] =
                IF i = product_node_number(p) /\ start_step + r - 1 = step
                THEN ONE ELSE 0

\* a solve has met the node of a product at the current step and at an
\* earlier retained step, and the node of another product
C23_Witness ==
    /\ Solved
    /\ \E r \in TableRows, q \in TableRows, p \in Products, o \in Products :
          /\ r < q /\ start_step + q - 1 = step
          /\ node[r][product_node_number(p)]
          /\ node[q][product_node_number(p)]
          /\ o # p
          /\ node[q][product_node_number(o)]

\* C24: after a solve, for every existing split or tank node (t, i) and
\* product p, the emergy coefficient and the empower coefficient are each
\* the sum over the recorded arcs of (t, i) whose target step is <= step of
\* arc weight times the coefficient of the successor at the target step;
\* arcs with a later target step contribute 0, and every target row read
\* lies inside the table
C24_SplitTankSum ==
    Solved =>
      \A r \in TableRows, i \in Nodes, p \in Products :
         node[r][i] /\ node_type(i) \in {1, 3} =>
           /\ \A j \in Resolved(r, i) :
                 suc_time[r][i][j] - start_step + 1 \in TableRows
           /\ eme_coef[r][i][p] = SumArcs(eme_coef, r, i, p)
           /\ emp_coef[r][i][p] = SumArcs(emp_coef, r, i, p)

-----------------------------------------------------------------------------
(* C25: the integrated value of an admitted input.                         *)

\* source s has an input admitted at the current step
Admitted(s) ==
    /\ step - start_step + 1 \in 1 .. Len(input_value)
    /\ input_value[step - start_step + 1][s] >= 0

\* C25: for every input (t, s) admitted at step t (magnitudes not negative),
\* integrated_input[t, s] is half the sum of the raw magnitude of s at step
\* t and of its raw magnitude at step t - 1, whatever classification and
\* clean() did to the input of step t - 1
C25_TrapezoidalAverage ==
    pc = "unfold" =>
      \A s \in Sources :
         ( /\ Admitted(s)
           /\ InputVal(source_flow, s) >= 0
           /\ PreviousMagnitude(s) >= 0 ) =>
           integrated_input[step - start_step + 1][s] =
             Half(InputVal(source_flow, s) + PreviousMagnitude(s))

-----------------------------------------------------------------------------
(* C26: what unfold() writes.                                              *)

\* an unfold() call that returns
UnfoldStep == pc = "unfold" /\ pc' = "compute_emergy"

\* the successors of node i in the static graph
SuccessorsOf(i) == { successors(i)[n] : n \in 1 .. Len(successors(i)) }

\* the row of the current step
CurrentRow == step - start_step + 1

\* what an unfold() call at step t leaves: every node i existing at step t
\* has, for every operational successor j, the arc to (t + num_steps[i, j],
\* j) recorded with the scenario's weight and that node marked existent, and
\* no arc to a successor that is not operational; every node the call
\* creates is such a target; the arcs of the other rows and the node bits
\* already set are unchanged
UnfoldWrites ==
    /\ \A i \in Nodes :
          (CurrentRow <= Len(node') /\ node'[CurrentRow][i]) =>
            \A j \in SuccessorsOf(i) :
               IF is_operational[<< i, j >>]
               THEN /\ suc'[CurrentRow][i][j]
                    /\ suc_time'[CurrentRow][i][j] = step + num_steps(i, j)
                    /\ suc_weight'[CurrentRow][i][j] = state_weight(i, j)
                    /\ node'[CurrentRow + num_steps(i, j)][j]
               ELSE ~suc'[CurrentRow][i][j]
    /\ \A q \in 1 .. Len(node'), j \in Nodes :
          (node'[q][j] /\ ~(q <= Len(node) /\ node[q][j])) =>
            \E i \in Nodes :
               /\ node'[CurrentRow][i]
               /\ j \in SuccessorsOf(i)
               /\ is_operational[<< i, j >>]
               /\ q = CurrentRow + num_steps(i, j)
    /\ \A q \in 1 .. Len(node) :
          /\ q # CurrentRow =>
                /\ suc'[q] = suc[q]
                /\ suc_time'[q] = suc_time[q]
                /\ suc_weight'[q] = suc_weight[q]
          /\ \A j \in Nodes : node[q][j] => node'[q][j]

\* a recorded arc of a row the step retains is not modified by the step
ArcsKept ==
    \A t \in WindowSteps, i \in Nodes, j \in Nodes :
       (t >= start_step' /\ suc[t - start_step + 1][i][j]) =>
         /\ suc'[t - start_step' + 1][i][j]
         /\ suc_time'[t - start_step' + 1][i][j] =
              suc_time[t - start_step + 1][i][j]
         /\ suc_weight'[t - start_step' + 1][i][j] =
              suc_weight[t - start_step + 1][i][j]

\* C26: unfold() at step t records, for every node existing at step t and
\* every operational successor, the arc with the scenario's weight and
\* marks its target existent, records nothing for a successor that is not
\* operational, leaves the other rows' arcs and the set node bits
\* unchanged, and an arc once recorded is never modified by later steps
C26_UnfoldWrites ==
    /\ [][ UnfoldStep => UnfoldWrites ]_vars
    /\ [][ ArcsKept ]_vars

-----------------------------------------------------------------------------
(* C27: add_inputs when no input is admitted.                              *)

\* an add_inputs() call that returns
AddInputsStep == pc = "add_inputs" /\ pc' = "unfold"

\* no source has an input to admit at the current step: its magnitude is
\* not positive and the step before holds no positive input of it
NoneAdmitted ==
    \A s \in Sources :
       /\ InputVal(source_flow, s) <= 0
       /\ (step - 1 >= start_step) => input_value[step - start_step][s] <= 0

\* the last row of the window arrays is an empty one
LastRowEmpty ==
    LET n == Len(node)
    IN  /\ \A i \in Nodes :
              /\ ~node[n][i]
              /\ \A j \in Nodes :
                    /\ ~suc[n][i][j]
                    /\ suc_time[n][i][j] = max_int
                    /\ suc_weight[n][i][j] = 0
        /\ \A s \in Sources :
              /\ input_value[n][s] = -ONE
              /\ integrated_input[n][s] = 0
              /\ \A p \in Products : ~active_product[n][s][p]

\* C27: when no input is admitted at a step, add_inputs appends exactly one
\* row to every window array and that row is empty, and it changes no
\* existing row, no flag and no convergence entry
C27_OneEmptyRow ==
    [][ (AddInputsStep /\ NoneAdmitted) =>
          /\ Len(node') = Len(node) + 1
          /\ LastRowEmpty'
          /\ \A f \in DOMAIN Win : SubSeq(Win'[f], 1, Len(node)) = Win[f]
          /\ UNCHANGED << last_eme_val, last_emp_val, total_empower,
                          start_step, step, eme_coef, emp_coef,
                          arrived_emergy, flowing_emergy, empower >> ]_vars

\* add_inputs has returned at a step with no input admitted while candidates
\* of earlier steps are pending: the window ends with the row it appended
C27_Witness ==
    /\ pc = "unfold"
    /\ \A s \in Sources : ~Admitted(s)
    /\ Len(node) >= 2
    /\ LastRowEmpty
    /\ DOMAIN last_eme_val # {}

-----------------------------------------------------------------------------
(* C28: the order of a solve pass.                                         *)

\* C28: in a solve pass every successor coefficient that a split, tank,
\* coproduct or source node reads already has its final value, so after the
\* pass the coefficient of every such node is the value its rule gives on
\* the finished tables
C28_SuccessorsFinal ==
    Solved =>
      \A r \in TableRows, i \in Nodes, p \in Products :
         node[r][i] /\ node_type(i) # 4 =>
           /\ eme_coef[r][i][p] =
                emergy_of(eme_coef, r + start_step - 1, i, p)
           /\ emp_coef[r][i][p] =
                empower_of(emp_coef, r + start_step - 1, i, p)

-----------------------------------------------------------------------------
(* C29: the positive-empower sample history.                               *)

\* the pending candidates that have a sample history
Histories == Keys \cap DOMAIN last_emp_val

\* C29 as stated: for every pending candidate, in every reachable state,
\* the history last_emp_val[(t, s, p)] holds at most NUM_CESARO samples and
\* every sample in it is strictly positive
C29_AllSamplesPositive ==
    \A k \in Histories :
       /\ Len(last_emp_val[k]) <= NUM_CESARO
       /\ \A n \in 1 .. Len(last_emp_val[k]) : last_emp_val[k][n] > 0

\* C29: for every pending candidate, in every reachable state, the history
\* last_emp_val[(t, s, p)] holds at most NUM_CESARO samples, none of them
\* negative, and all of them strictly positive while it holds fewer than
\* NUM_CESARO samples: a zero sample enters only when a full history slides
C29_SamplesBounded ==
    \A k \in Histories :
       /\ Len(last_emp_val[k]) <= NUM_CESARO
       /\ \A n \in 1 .. Len(last_emp_val[k]) : last_emp_val[k][n] >= 0
       /\ Len(last_emp_val[k]) < NUM_CESARO =>
             \A n \in 1 .. Len(last_emp_val[k]) : last_emp_val[k][n] > 0

\* a pending candidate whose full history has slid over a zero sample, and
\* one whose history holds a single positive sample
C29_Witness ==
    /\ \E k \in Histories :
          /\ Len(last_emp_val[k]) = NUM_CESARO
          /\ last_emp_val[k][1] > 0
          /\ last_emp_val[k][NUM_CESARO] = 0
    /\ \E k \in Histories :
          /\ Len(last_emp_val[k]) = 1
          /\ last_emp_val[k][1] > 0

-----------------------------------------------------------------------------
(* C30: the row of the current step at the start of add_inputs.            *)

\* C30: when the driver advances the step by one and runs the phases in
\* order, at the start of add_inputs the index step - start_step is inside
\* the window arrays, so that admission never reads or writes input_value
\* outside the window
C30_StepInsideWindow ==
    pc = "add_inputs" =>
      /\ step - start_step >= 0
      /\ step - start_step < Len(input_value)

-----------------------------------------------------------------------------
(* C31: a candidate is declared arrived at most once.                      *)

\* a convergence() or convergence2() call that returns, the first or the
\* second of its step
ClassificationStep == classified' = classified + 1 /\ pc' = "clean"

\* the candidates a set_arrived log names
ArrivedIn(log) ==
    { << log[n].t, log[n].s, log[n].p >> : n \in 1 .. Len(log) }

\* C31: a flag is set only by add_inputs of the candidate's own step, which
\* the growing step reaches once, so a cleared flag is never set again; a
\* classification call declares arrived only candidates that were pending,
\* each once, and clears their flags; and the accumulators it leaves are the
\* sums over the arrivals of this call and over the candidates it leaves
\* pending, so a candidate declared arrived by an earlier call, of the same
\* step or not, contributes to none of them
C31_ArrivedOnce ==
    /\ [][ /\ step' >= step
           /\ (Keys' \ Keys # {}) => pc = "add_inputs" /\ step' = step
           /\ \A k \in Keys' \ Keys : k[1] = step
           /\ (pc = "add_inputs") => step' = step /\ pc' # "add_inputs" ]_vars
    /\ [][ ClassificationStep =>
             /\ ArrivedIn(arrivals') \subseteq Keys
             /\ Keys' = Keys \ ArrivedIn(arrivals')
             /\ Cardinality(ArrivedIn(arrivals')) = Len(arrivals')
             /\ \A p \in Products :
                   LET arr  == { n \in 1 .. Len(arrivals') :
                                   arrivals'[n].p = p }
                       pend == { k \in Keys' : k[3] = p }
                   IN  /\ arrived_emergy'[p] =
                            SumFn([ n \in arr |-> arrivals'[n].eme ])
                       /\ flowing_emergy'[p] =
                            SumFn([ k \in pend |-> EmeOf(k) ])
                       /\ empower'[p] =
                            SumFn([ n \in arr |-> arrivals'[n].emp ])
                            + SumFn([ k \in pend |-> EmpOf(k) ]) ]_vars

\* a second classification call at a step has returned: a candidate that the
\* first call declared arrived is still in the window with its flag
\* cleared, another candidate is pending with a positive emergy, and the
\* second call declared no arrival
C31_Witness ==
    /\ pc = "clean"
    /\ classified = 2
    /\ arrivals = << >>
    /\ \E r \in 1 .. step - start_step + 1, s \in Sources, p \in Products :
          /\ input_value[r][s] >= 0
          /\ product_node_number(p) \in
                { reachable(source_node_number(s))[n] :
                    n \in 1 .. Len(reachable(source_node_number(s))) }
          /\ ~active_product[r][s][p]
    /\ \E k \in Keys : EmeOf(k) > 0 /\ flowing_emergy[k[3]] > 0

-----------------------------------------------------------------------------
(* C32: a candidate whose emergy stops changing arrives.                   *)

\* k is pending, at least MAX_STEPS steps old, and its emergy is the one of
\* each of the last MAX_STEPS classification calls
Settled(k) ==
    /\ k \in Keys
    /\ k[1] + MAX_STEPS <= step
    /\ Len(last_eme_val[k]) = MAX_STEPS
    /\ \A n \in 1 .. MAX_STEPS : last_eme_val[k][n] = EmeOf(k)

\* C32: with convergence() at every step, once a candidate is at least
\* MAX_STEPS steps old and its emergy has been unchanged for MAX_STEPS steps,
\* the next classification call returns and declares it arrived, which is
\* how a candidate whose emergy stops changing eventually arrives; and a
\* clean() that finds no candidate pending leaves no convergence entry and
\* moves start_step to the current step
C32_SettledArrives ==
    [][ /\ ( /\ pc = "convergence" /\ variant = "convergence"
             /\ \E k \in Keys : Settled(k) ) => pc' = "clean"
        /\ ConvergenceStep =>
             \A k \in Keys :
                Settled(k) => /\ k \notin Keys'
                              /\ k \in ArrivedIn(arrivals')
                              /\ k \notin DOMAIN last_eme_val'
        /\ (CleanStep /\ variant = "convergence" /\ Keys = {}) =>
             /\ DOMAIN last_eme_val' = {}
             /\ DOMAIN last_emp_val' = {}
             /\ DOMAIN total_empower' = {}
             /\ Keys' = {}
             /\ start_step' = step ]_vars

\* convergence() has declared arrived a candidate whose emergy, below its
\* integrated input, was the one of the MAX_STEPS calls before, and has left
\* no candidate pending
C32_Witness ==
    /\ variant = "convergence" /\ pc = "clean" /\ classified = 1
    /\ Keys = {}
    /\ start_step < step
    /\ \E n \in 1 .. Len(arrivals) :
          LET k == << arrivals[n].t, arrivals[n].s, arrivals[n].p >>
          IN  /\ k[1] + MAX_STEPS <= step
              /\ arrivals[n].emp = 0
              /\ arrivals[n].eme = EmeOf(k)
              /\ arrivals[n].eme > 0
              /\ arrivals[n].eme < IntOf(k)
              /\ Unsettled(k)

-----------------------------------------------------------------------------
(* C33: the emergy of a pending candidate never decreases.                 *)

\* the first compute_emergy() call of a step after step 0
NextSolveStep ==
    pc = "compute_emergy" /\ pc' = "convergence" /\ Len(eme_coef) >= 1

\* the emergy coefficient of candidate k in the table of the step before,
\* whose first row is the row of step - Len(eme_coef)
OldEme(k) ==
    eme_coef[k[1] - (step - Len(eme_coef)) + 1]
            [source_node_number(k[2])][k[3]]

\* C33: for every candidate pending at two consecutive steps, the emergy
\* coefficient the solve of the second step gives it is >= the one of the
\* first step, whatever clean() trimmed in between; a second solve after a
\* classification call that deactivated other inputs gives it the same
\* value; so in a classification call the current emergy of a candidate is
\* >= every sample of its history, the oldest included
C33_EmergyNeverDecreases ==
    /\ [][ NextSolveStep =>
             \A k \in Keys : k[1] < step => EmeOf(k)' >= OldEme(k) ]_vars
    /\ [][ SecondSolve => \A k \in Keys : EmeOf(k)' = EmeOf(k) ]_vars
    /\ [](pc = "convergence" =>
            \A k \in Keys :
               \A n \in 1 .. Len(last_eme_val[k]) :
                  last_eme_val[k][n] <= EmeOf(k))

\* a solve after clean() trimmed the rows before the candidate's: its emergy
\* is above its newest recorded sample, which is above the one before
C33_Witness ==
    /\ pc = "convergence"
    /\ start_step >= 1
    /\ \E k \in Keys :
          /\ k[1] < step
          /\ Len(last_eme_val[k]) >= 2
          /\ last_eme_val[k][1] > 0
          /\ last_eme_val[k][2] > last_eme_val[k][1]
          /\ EmeOf(k) > last_eme_val[k][2]

====
